---------------------------- MODULE Spec2Model ----------------------------
(***************************************************************************)
(* A model of the pickle cog of TrabajoBot (src/cogs/pickle.py) and of the *)
(* database client it uses (src/db.py).                                    *)
(*                                                                         *)
(* Seven specifications share the variables:                               *)
(*   SpecStore    - the persistence client and the game store (PickleData);*)
(*   SpecView     - one leaderboard view session (PickleBoardView);        *)
(*   SpecSweep    - the monthly reset task, the pickle command, the clock; *)
(*   SpecCommands - the cog's commands and the reset task in a reset hour; *)
(*   SpecPaging   - paging through the server view of longer snapshots;    *)
(*   SpecBatches  - identity resolution in more than one chunk;            *)
(*   SpecSessions - the views of two pickleboard requests next to the      *)
(*                  commands that write the store.                         *)
(*                                                                         *)
(* The methods of PickleData and the database part of the reset task hold  *)
(* no await between their statements, so each is one step of the model;    *)
(* the callbacks of the view are split at their awaits.                    *)
(*                                                                         *)
(* The relational store and the chat platform are collaborators outside    *)
(* the repository.  Of the store the model assumes transactions only: a    *)
(* statement that raises changes nothing durable and aborts the open       *)
(* transaction, COMMIT makes the statements since the transaction began    *)
(* durable, ROLLBACK or the loss of the connection discards them.  Any     *)
(* statement may raise.  The store and the bot read the same clock.        *)
(***************************************************************************)
EXTENDS Integers, Sequences, FiniteSets, TLC

VARIABLES
    sizes,      \* table pickle_sizes: user_id -> current_size (None: no row)
    history,    \* table pickle_history: rows [user_id, size, month of recorded_at]
                \* in insertion order
    db,         \* PickleData.db: the Database object (cursor, transaction status)
    last,       \* observation of the last Store call: what was asked, what came back
    now,        \* the wall clock: month, day of the month, hour of the day
    swept,      \* the clock of the last monthly reset that was committed, if any
    leaderboard_data,   \* PickleBoardView.leaderboard_data: the ranked snapshot
    guild_members,      \* PickleBoardView.guild_members: ids of the server's members
    resolvable,         \* the ids bot.fetch_user answers for (the identity service)
    is_global,          \* PickleBoardView.is_global: the selected scope
    page,               \* PickleBoardView.page
    global_entries,     \* PickleBoardView.global_entries
    server_entries,     \* PickleBoardView.server_entries
    user_cache,         \* PickleBoardView.user_cache: ids fetched so far
    buttons,            \* the view's buttons: disabled flags and the toggle's label
    message,            \* what the chat shows: the last embed and controls sent
    prefetch,           \* the task pickleboard creates for prepare_global_leaderboard
    handlers,           \* the running toggle_global callbacks, each at its await
    resolved,           \* a prepare_global_leaderboard has run to its end
    timed_out,          \* the view has timed out: it takes no more presses
    timeout_error,      \* on_timeout ended with an exception
    returned,           \* a toggle back to the server view has been handled
    views               \* the PickleBoardView objects of several pickleboard
                        \* requests, each with its own attributes

storeVars == <<sizes, history, db, last, now, swept>>

viewVars ==
    <<leaderboard_data, guild_members, resolvable, is_global, page, global_entries,
      server_entries, user_cache, buttons, message, prefetch, handlers, resolved,
      timed_out, timeout_error, returned, views>>

vars == <<storeVars, viewVars>>

---------------------------------------------------------------------------
(* Program constants                                                       *)

MIN_SIZE == 3
MAX_SIZE == 32
\* max_retries of get_leaderboard and get_history
max_retries == 3
\* Python's None: no row, no value
None == 0
\* PickleBoardView.entries_per_page
entries_per_page == 10
\* chunk_size of bulk_fetch_users
chunk_size == 50

(* Bounds of the model                                                     *)

\* rows pickle_history may hold
MaxHistory == 2
\* rows of the snapshot a view session is built from
MaxEntries == 11
\* toggle_global callbacks running at once
MaxHandlers == 2

\* months the clock runs through
MaxMonth == 2
\* rows of the longest snapshot paged through
MaxRows == 25
\* rows of the snapshot resolved in more than one chunk
MaxBatchRows == 51

Users == {1, 2}

\* the clock: the month; the day of the month, the 1st or a later one; the
\* hour of the day, hour 0 or a later one
Clocks == [month : 1..MaxMonth, day : {1, 2}, hour : {0, 1}]
\* the bot starts in the first month, on a later day at a later hour
StartClocks == {t \in Clocks : t.month = 1 /\ t.day = 2 /\ t.hour = 1}
SizeInputs == {MIN_SIZE, MAX_SIZE}

\* what makes a statement raise: nothing, a transient conflict
\* (TransactionRetryWithProtoRefreshError), any other failure
Faults == {"none", "conflict", "error"}

---------------------------------------------------------------------------
(* The Database object and the statements the cog sends through it         *)

\* Database.__init__: connect; a failed connect is logged and leaves
\* conn = cursor = None
\* tx and dirty are the connection's state at the store: the state of its
\* transaction, and whether it holds statements that are not yet committed
Database(connected) == [cursor |-> connected, tx |-> "idle", dirty |-> FALSE]

StBegin == [op |-> "BEGIN"]
StCommit == [op |-> "COMMIT"]
StRollback == [op |-> "ROLLBACK"]
StUpsert(u, v) == [op |-> "UPSERT", user |-> u, size |-> v]
StInsertHistory(u, v) == [op |-> "INSERT_HISTORY", user |-> u, size |-> v]
StSelect == [op |-> "SELECT"]
StArchive == [op |-> "ARCHIVE"]
\* (a variant of the sweep's TRUNCATE that names pickle_history as well)
StTruncateHistoryToo == [op |-> "TRUNCATE_BOTH"]
StTruncate == [op |-> "TRUNCATE"]
StTruncateBoth == [op |-> "TRUNCATE_BOTH"]

\* the row INSERT INTO pickle_history (user_id, size) adds: recorded_at is the
\* store's CURRENT_TIMESTAMP, of which the model keeps the month
HistoryRow(u, v) == [user_id |-> u, size |-> v, month |-> now.month]

\* (a variant without the NOT EXISTS test)
NoEntryCheck(h, u) == FALSE

\* EXISTS (SELECT 1 FROM pickle_history WHERE user_id = u AND
\* DATE_TRUNC('month', recorded_at) = DATE_TRUNC('month', CURRENT_TIMESTAMP))
HasEntryThisMonth(h, u) ==
    \E i \in DOMAIN h : h[i].user_id = u /\ h[i].month = now.month

\* the rows INSERT INTO pickle_history ... SELECT ... WHERE NOT EXISTS adds:
\* one for every user of us with a size and no entry this month
RECURSIVE Archive(_, _, _)
Archive(s, h, us) ==
    IF us = {} THEN <<>>
    ELSE LET u == CHOOSE x \in us : \A y \in us : x <= y
         IN  (IF s[u] # None /\ ~HasEntryThisMonth(h, u)
              THEN <<HistoryRow(u, s[u])>> ELSE <<>>)
                 \o Archive(s, h, us \ {u})

\* A session: the Database object, the durable tables, and the tables as the
\* open transaction sees them (wsizes, whistory).
Session(d, s, h) ==
    [db |-> d, sizes |-> s, history |-> h, wsizes |-> s, whistory |-> h]

\* the effect of a statement the store carries out
Apply(ss, st) ==
    CASE st.op = "BEGIN" -> [ss EXCEPT !.db.tx = "open"]
      [] st.op = "SELECT" -> [ss EXCEPT !.db.tx = "open"]
      [] st.op = "UPSERT" ->
            [ss EXCEPT !.db.tx = "open", !.db.dirty = TRUE,
                       !.wsizes[st.user] = st.size]
      [] st.op = "INSERT_HISTORY" ->
            [ss EXCEPT !.db.tx = "open", !.db.dirty = TRUE,
                       !.whistory = Append(@, HistoryRow(st.user, st.size))]
      [] st.op = "ARCHIVE" ->
            [ss EXCEPT !.db.tx = "open", !.db.dirty = TRUE,
                       !.whistory = @ \o Archive(ss.wsizes, ss.whistory, DOMAIN ss.wsizes)]
      [] st.op = "TRUNCATE" ->
            [ss EXCEPT !.db.tx = "open", !.db.dirty = TRUE,
                       !.wsizes = [u \in DOMAIN @ |-> None]]
      [] st.op = "TRUNCATE_BOTH" ->
            [ss EXCEPT !.db.tx = "open", !.db.dirty = TRUE,
                       !.wsizes = [u \in DOMAIN @ |-> None], !.whistory = <<>>]
      [] st.op = "COMMIT" ->
            [ss EXCEPT !.db.tx = "idle", !.db.dirty = FALSE,
                       !.sizes = ss.wsizes, !.history = ss.whistory]
      [] st.op = "ROLLBACK" ->
            [ss EXCEPT !.db.tx = "idle", !.db.dirty = FALSE,
                       !.wsizes = ss.sizes, !.whistory = ss.history]

\* the effect of a statement that raises: the transaction is aborted and what
\* it held is lost
Abort(ss) ==
    [ss EXCEPT !.db.tx = "aborted", !.db.dirty = FALSE,
               !.wsizes = ss.sizes, !.whistory = ss.history]

\* Database.execute: without a cursor it logs and returns; otherwise the
\* statement runs and its exception, if any, reaches the caller.  In an
\* aborted transaction every statement but ROLLBACK and COMMIT raises.
execute(ss, st, fault) ==
    IF ~ss.db.cursor
    THEN [ss |-> ss, raised |-> "none"]
    ELSE IF fault # "none"
    THEN [ss |-> Abort(ss), raised |-> fault]
    ELSE IF ss.db.tx = "aborted" /\ st.op \notin {"ROLLBACK", "COMMIT"}
    THEN [ss |-> Abort(ss), raised |-> "error"]
    ELSE IF ss.db.tx = "aborted"
    THEN [ss |-> Apply(ss, StRollback), raised |-> "none"]
    ELSE [ss |-> Apply(ss, st), raised |-> "none"]

\* the statements of a try block in order, up to the first that raises;
\* statement number failAt raises with fault
RECURSIVE RunFrom(_, _, _, _, _)
RunFrom(ss, stmts, i, failAt, fault) ==
    IF i > Len(stmts)
    THEN [ss |-> ss, raised |-> "none"]
    ELSE LET r == execute(ss, stmts[i], IF i = failAt THEN fault ELSE "none")
         IN  IF r.raised # "none" THEN r
             ELSE RunFrom(r.ss, stmts, i + 1, failAt, fault)

Run(ss, stmts, failAt, fault) == RunFrom(ss, stmts, 1, failAt, fault)

\* try: execute("ROLLBACK") except: pass
TryRollback(ss, fault) == execute(ss, StRollback, fault).ss

\* self.db = Database(): a new connection; what the old one held uncommitted
\* is lost
Reconnect(ss, connected) ==
    [ss EXCEPT !.db = Database(connected), !.wsizes = ss.sizes, !.whistory = ss.history]

\* Database.fetchone after the SELECT of get_size: None without a cursor
fetchone(ss, u) == IF ~ss.db.cursor THEN None ELSE ss.wsizes[u]

---------------------------------------------------------------------------
(* PickleData                                                              *)

\* the observation before any call
NoCall ==
    [op |-> "none", user |-> None, size |-> None, outcome |-> "ok", result |-> None,
     rows |-> <<>>, attempts |-> 0, carried |-> TRUE, conflictsOnly |-> TRUE,
     landed |-> "neither", acked |-> None, conflictThenNormal |-> FALSE,
     fired |-> FALSE, committed |-> FALSE, notified |-> {}, skipped |-> {},
                         deferred |-> FALSE]

\* (a variant that commits the upsert on its own)
SetSizeStmtsAutocommit(u, v) ==
    <<StUpsert(u, v), StCommit, StInsertHistory(u, v), StCommit>>

\* (a variant that returns before the COMMIT)
SetSizeStmtsNoCommit(u, v) ==
    <<StBegin, StUpsert(u, v), StInsertHistory(u, v)>>

\* the statements of the first attempt of set_size
SetSizeStmts(u, v) ==
    <<StBegin, StUpsert(u, v), StInsertHistory(u, v), StCommit>>

\* (a variant that retries the failed tail only)
SetSizeRetryLastOnly(u, v) ==
    <<StBegin, StInsertHistory(u, v), StCommit>>

\* the statements of the second attempt of set_size
SetSizeRetryStmts(u, v) ==
    <<StBegin, StUpsert(u, v), StInsertHistory(u, v), StCommit>>

\* what a call left of (u, v) in the store: both rows, neither, or something else
Landed(s0, h0, s1, h1, u, v) ==
    IF s1 = s0 /\ h1 = h0 THEN "neither"
    ELSE IF /\ s1 = [s0 EXCEPT ![u] = v]
            /\ h1 = Append(h0, HistoryRow(u, v))
    THEN "both"
    ELSE "partial"

\* PickleData.set_size: one attempt; on any exception ROLLBACK, a new
\* Database, and one more attempt; an exception of that one is raised.
\* f: the faults of the call.
set_size_result(ss0, u, v, f) ==
    LET a1 == Run(ss0, SetSizeStmts(u, v), f.at1, f.kind1)
    IN  IF a1.raised = "none"
        THEN [ss |-> a1.ss, outcome |-> "ok", attempts |-> 1,
              carried |-> ss0.db.cursor, conflictsOnly |-> TRUE]
        ELSE LET s2 == Reconnect(TryRollback(a1.ss, f.rb1), f.connect)
                 a2 == Run(s2, SetSizeRetryStmts(u, v), f.at2, f.kind1)
             IN  IF a2.raised = "none"
                 THEN [ss |-> a2.ss, outcome |-> "ok", attempts |-> 2,
                       carried |-> s2.db.cursor,
                       conflictsOnly |-> a1.raised = "conflict"]
                 ELSE [ss |-> TryRollback(a2.ss, f.rb1), outcome |-> "raised",
                       attempts |-> 2, carried |-> FALSE,
                       conflictsOnly |-> a1.raised = "conflict" /\ a2.raised = "conflict"]

\* the faults of one call: the statement of the first attempt that raises (0:
\* none), how it raises, whether a ROLLBACK raises, whether the new Database
\* connects, the statement of the second attempt that raises
SetSizeFaults ==
    [at1 : 0..4, kind1 : {"conflict", "error"}, rb1 : {"none", "error"},
     connect : BOOLEAN, at2 : 0..4]

set_size(u, v) ==
    /\ Len(history) < MaxHistory
    /\ \E f \in SetSizeFaults :
         \E r \in {set_size_result(Session(db, sizes, history), u, v, f)} :
             /\ sizes' = r.ss.sizes
             /\ history' = r.ss.history
             /\ db' = r.ss.db
             /\ last' = [op |-> "set_size", user |-> u, size |-> v,
                         outcome |-> r.outcome, result |-> None, rows |-> <<>>,
                         attempts |-> r.attempts, carried |-> r.carried,
                         conflictsOnly |-> r.conflictsOnly,
                         landed |-> Landed(sizes, history, r.ss.sizes, r.ss.history, u, v),
                         acked |-> None, conflictThenNormal |-> FALSE,
                         fired |-> FALSE, committed |-> FALSE, notified |-> {}, skipped |-> {},
                         deferred |-> FALSE]

\* PickleData.get_size: SELECT and fetchone; on any exception a new Database
\* and once more; an exception of that one is raised
get_size_result(ss0, u, f) ==
    LET a1 == execute(ss0, StSelect, f.kind1)
    IN  IF a1.raised = "none"
        THEN [ss |-> a1.ss, outcome |-> "ok", result |-> fetchone(a1.ss, u),
              attempts |-> 1, carried |-> ss0.db.cursor]
        ELSE LET s2 == Reconnect(a1.ss, f.connect)
                 a2 == execute(s2, StSelect, f.kind2)
             IN  IF a2.raised = "none"
                 THEN [ss |-> a2.ss, outcome |-> "ok", result |-> fetchone(a2.ss, u),
                       attempts |-> 2, carried |-> s2.db.cursor]
                 ELSE [ss |-> a2.ss, outcome |-> "raised", result |-> None,
                       attempts |-> 2, carried |-> FALSE]

GetSizeFaults == [kind1 : Faults, connect : BOOLEAN, kind2 : Faults]

\* the size a set_size acknowledged to the caller just before this call, for
\* the same user; None when the call before was anything else
AckedBefore(u) ==
    IF last.op = "set_size" /\ last.outcome = "ok" /\ last.user = u
    THEN last.size ELSE None

get_size(u) ==
    \E f \in GetSizeFaults :
        \E r \in {get_size_result(Session(db, sizes, history), u, f)} :
            /\ db' = r.ss.db
            /\ last' = [op |-> "get_size", user |-> u, size |-> None,
                        outcome |-> r.outcome, result |-> r.result, rows |-> <<>>,
                        attempts |-> r.attempts, carried |-> r.carried,
                        conflictsOnly |-> TRUE,
                        landed |-> "neither", acked |-> AckedBefore(u),
                        conflictThenNormal |-> FALSE,
                        fired |-> FALSE, committed |-> FALSE, notified |-> {}, skipped |-> {},
                         deferred |-> FALSE]
            /\ UNCHANGED <<sizes, history>>

\* ORDER BY current_size DESC: the rows of pickle_sizes in every order the
\* store may return them, rows of equal size in any order
Rows(s) == {[user_id |-> u, current_size |-> s[u]] : u \in {x \in Users : s[x] # None}}

\* (a variant without the ORDER BY: the rows in any order)
AnyOrder(s) ==
    {q \in [1..Cardinality(Rows(s)) -> Rows(s)] :
        \A i, j \in DOMAIN q : i # j => q[i] # q[j]}

OrderBySizeDesc(s) ==
    {q \in [1..Cardinality(Rows(s)) -> Rows(s)] :
        /\ \A i, j \in DOMAIN q : i # j => q[i] # q[j]
        /\ \A i, j \in DOMAIN q : i < j => q[i].current_size >= q[j].current_size}

\* Database.fetchall: [] without a cursor
fetchall(ss, rows) == IF ~ss.db.cursor THEN <<>> ELSE rows

\* (a variant that retries every transient conflict)
RetryEveryConflict(raised, retry_count) == raised = "conflict"

\* if "TransactionRetryWithProtoRefreshError" in str(e) and
\* retry_count < max_retries - 1
Retryable(raised, retry_count) ==
    raised = "conflict" /\ retry_count < max_retries - 1

\* PickleData.get_leaderboard: while retry_count < max_retries: ROLLBACK
\* (its exception swallowed), SELECT, fetchall; a retryable exception adds
\* one to retry_count and continues, anything else is raised.  A loop whose
\* condition fails ends the method without a return statement ("fell").
\* f.kind[n]: how the SELECT of attempt n fares.
RECURSIVE leaderboard_loop(_, _, _)
leaderboard_loop(ss, retry_count, f) ==
    IF ~(retry_count < max_retries)
    THEN [ss |-> ss, outcome |-> "fell", attempts |-> retry_count, carried |-> FALSE]
    ELSE
    LET n == retry_count + 1
        a == execute(TryRollback(ss, f.rb), StSelect, f.kind[n])
    IN  IF a.raised = "none"
        THEN [ss |-> a.ss, outcome |-> "ok", attempts |-> n, carried |-> a.ss.db.cursor]
        ELSE IF Retryable(a.raised, retry_count)
        THEN leaderboard_loop(a.ss, retry_count + 1, f)
        ELSE [ss |-> a.ss, outcome |-> "raised", attempts |-> n, carried |-> FALSE]

\* the faults of one call: whether a ROLLBACK raises, how the SELECT of each
\* attempt fares
LoopFaults == [rb : {"none", "error"}, kind : [1..max_retries -> Faults]]

\* the first attempt meets a transient conflict and from then on the store
\* carries out what it is sent
ConflictThenNormal(f) ==
    f.kind[1] = "conflict" /\ f.rb = "none" /\ \A n \in 2..max_retries : f.kind[n] = "none"

get_leaderboard ==
    \E f \in LoopFaults :
        \E r \in {leaderboard_loop(Session(db, sizes, history), 0, f)} :
            /\ db' = r.ss.db
            /\ \E q \in OrderBySizeDesc(r.ss.wsizes) :
                 last' = [op |-> "get_leaderboard", user |-> None, size |-> None,
                          outcome |-> r.outcome, result |-> None,
                          rows |-> IF r.outcome = "ok" THEN fetchall(r.ss, q) ELSE <<>>,
                          attempts |-> r.attempts, carried |-> r.carried,
                          conflictsOnly |-> TRUE,
                          landed |-> "neither", acked |-> None,
                          conflictThenNormal |-> ConflictThenNormal(f),
                          fired |-> FALSE, committed |-> FALSE,
                          notified |-> {}, skipped |-> {}, deferred |-> FALSE]
            /\ UNCHANGED <<sizes, history>>

\* WHERE user_id = u ORDER BY recorded_at ASC: the user's rows of
\* pickle_history, oldest first
RECURSIVE HistoryOf(_, _)
HistoryOf(h, u) ==
    IF h = <<>> THEN <<>>
    ELSE IF Head(h).user_id = u
    THEN <<Head(h).size>> \o HistoryOf(Tail(h), u)
    ELSE HistoryOf(Tail(h), u)

\* PickleData.get_history: while retry_count < max_retries: SELECT, fetchall;
\* a retryable exception adds one to retry_count and continues (no ROLLBACK
\* before the retry), anything else is raised
RECURSIVE history_loop(_, _, _)
history_loop(ss, retry_count, f) ==
    IF ~(retry_count < max_retries)
    THEN [ss |-> ss, outcome |-> "fell", attempts |-> retry_count, carried |-> FALSE]
    ELSE
    LET n == retry_count + 1
        a == execute(ss, StSelect, f.kind[n])
    IN  IF a.raised = "none"
        THEN [ss |-> a.ss, outcome |-> "ok", attempts |-> n, carried |-> a.ss.db.cursor]
        ELSE IF Retryable(a.raised, retry_count)
        THEN history_loop(a.ss, retry_count + 1, f)
        ELSE [ss |-> a.ss, outcome |-> "raised", attempts |-> n, carried |-> FALSE]

get_history(u) ==
    \E f \in LoopFaults :
        \E r \in {history_loop(Session(db, sizes, history), 0, f)} :
            /\ db' = r.ss.db
            /\ last' = [op |-> "get_history", user |-> u, size |-> None,
                        outcome |-> r.outcome, result |-> None,
                        rows |-> IF r.outcome = "ok"
                                 THEN fetchall(r.ss, HistoryOf(r.ss.whistory, u))
                                 ELSE <<>>,
                        attempts |-> r.attempts, carried |-> r.carried,
                        conflictsOnly |-> TRUE,
                        landed |-> "neither", acked |-> None,
                        conflictThenNormal |-> ConflictThenNormal(f),
                        fired |-> FALSE, committed |-> FALSE,
                        notified |-> {}, skipped |-> {}, deferred |-> FALSE]
            /\ UNCHANGED <<sizes, history>>

---------------------------------------------------------------------------
(* Pickle: the monthly reset task and the pickle command                   *)

\* the guilds the bot is in
Guilds == {1}

\* (a variant that looks at the day only)
IsResetDay(t) == t.day = 1

\* now.day == 1 and now.hour == 0
IsResetTime(t) == t.day = 1 /\ t.hour = 0

\* (a variant that commits the archive on its own)
SweepStmtsAutocommit ==
    <<StArchive, StCommit, StTruncate, StCommit>>

\* the statements of the reset: BEGIN, the archive, the TRUNCATE, COMMIT
SweepStmts ==
    <<StBegin, StArchive, StTruncate, StCommit>>

\* what a reset left in the store: the archive rows added and every size
\* cleared (both), nothing at all (neither), something else (partial); same
\* when there was nothing to archive or clear and nothing changed
SweepLanded(s0, h0, s1, h1) ==
    LET done == /\ s1 = [u \in DOMAIN s0 |-> None]
                /\ h1 = h0 \o Archive(s0, h0, DOMAIN s0)
        undone == s1 = s0 /\ h1 = h0
    IN  IF done /\ undone THEN "same"
        ELSE IF done THEN "both"
        ELSE IF undone THEN "neither"
        ELSE "partial"

\* the reset of monthly_reset: ROLLBACK (its exception swallowed), the
\* statements; on an exception ROLLBACK (swallowed) and the exception is
\* raised to the task's outer handler, which logs it.
\* committed: the store carried out the COMMIT.
reset_result(ss0, f) ==
    LET s1 == TryRollback(ss0, f.rb)
        a == Run(s1, SweepStmts, f.at, f.kind)
    IN  IF a.raised = "none"
        THEN [ss |-> a.ss, outcome |-> "ok", committed |-> s1.db.cursor]
        ELSE [ss |-> TryRollback(a.ss, f.rb), outcome |-> "raised", committed |-> FALSE]

\* the faults of one reset: whether a ROLLBACK raises, the statement that
\* raises (0: none); the task treats every exception alike
SweepFaults == [rb : {"none", "error"}, at : 0..4, kind : {"error"}]

\* one run of the hourly task Pickle.monthly_reset.  Outside the reset hour
\* it does nothing.  In it: the reset, then the notification sent to the
\* guilds one by one (sent: the guilds with a channel where the send went
\* through).
monthly_reset ==
    IF ~IsResetTime(now)
    THEN /\ last' = [NoCall EXCEPT !.op = "monthly_reset"]
         /\ UNCHANGED <<sizes, history, db, swept>>
    ELSE /\ Len(history) + Len(Archive(sizes, history, Users)) <= MaxHistory
         /\ \E f \in SweepFaults, sent \in SUBSET Guilds :
              \E r \in {reset_result(Session(db, sizes, history), f)} :
                 /\ sizes' = r.ss.sizes
                 /\ history' = r.ss.history
                 /\ db' = r.ss.db
                 /\ swept' = IF r.committed THEN {now} ELSE swept
                 /\ last' = [NoCall EXCEPT
                        !.op = "monthly_reset",
                        !.outcome = r.outcome,
                        !.fired = TRUE,
                        !.committed = r.committed,
                        !.notified = IF r.outcome = "ok" THEN sent ELSE {},
                        !.landed = SweepLanded(sizes, history, r.ss.sizes, r.ss.history),
                        !.skipped = IF r.committed
                                    THEN {u \in Users : /\ sizes[u] # None
                                                        /\ HasEntryThisMonth(history, u)}
                                    ELSE {}]

\* the clock moves on: from hour 0 to a later hour, from the 1st to a later
\* day, from a later day to the 1st of the next month
Succ(t) ==
    IF t.hour = 0 THEN [t EXCEPT !.hour = 1]
    ELSE IF t.day = 1 THEN [t EXCEPT !.day = 2, !.hour = 0]
    ELSE [month |-> t.month + 1, day |-> 1, hour |-> 0]

tick ==
    /\ Succ(now) \in Clocks
    /\ now' = Succ(now)

\* the faults looked at in the calls the pickle command makes.  Of get_size:
\* none; a failure and a reconnect that connects; one that does not; a second
\* failure.  Of set_size: none; a failure at the history insert and a
\* reconnect that connects; one that does not; a second failure at the COMMIT.
PickleGetFaults ==
    {f \in GetSizeFaults :
        \/ f.kind1 = "none" /\ f.connect /\ f.kind2 = "none"
        \/ f.kind1 = "error" /\ f.kind2 = "none"
        \/ f.kind1 = "error" /\ f.connect /\ f.kind2 = "error"}

PickleSetFaults ==
    {f \in SetSizeFaults :
        /\ f.kind1 = "error" /\ f.rb1 = "none"
        /\ \/ f.at1 = 0 /\ f.connect /\ f.at2 = 0
           \/ f.at1 = 3 /\ f.at2 = 0
           \/ f.at1 = 3 /\ f.connect /\ f.at2 = 4}

\* the interaction a command handler is called with: whether it has been
\* responded to, and what its user has been shown
Interaction == [responded |-> FALSE, shown |-> "none"]

\* interaction.response.defer(): the response is used up; the user sees the
\* bot thinking
defer(i) == [responded |-> TRUE, shown |-> "thinking"]

\* interaction.response.send_message: the response, once; on an interaction
\* already responded to it raises and shows nothing
send_message(i, content) ==
    IF i.responded THEN i ELSE [responded |-> TRUE, shown |-> content]

\* interaction.followup.send
followup_send(i, content) == [i EXCEPT !.shown = content]

\* what the user is left with when the handler is over
Shown(i) == IF i.shown = "thinking" THEN "unanswered" ELSE i.shown

\* (a variant whose upper end can be drawn)
RandintInclusive(low, high) == {low, high}

\* np.random.randint(low, high): an integer from low up to, but not
\* including, high.  The draws looked at are the two ends of that range.
randint(low, high) == {low, high - 1}

\* Pickle.pickle for target u: get_size; without a size one is drawn (v) and
\* set_size stores it; the size is shown; any exception gives the apology.
pickle(u, v) ==
    \E fg \in PickleGetFaults :
      \E g \in {get_size_result(Session(db, sizes, history), u, fg)} :
        IF g.outcome = "raised" \/ g.result # None
        THEN /\ db' = g.ss.db
             /\ last' = [NoCall EXCEPT
                    !.op = "pickle", !.user = u,
                    !.outcome = Shown(send_message(Interaction,
                                    IF g.outcome = "raised" THEN "sorry" ELSE "ok")),
                    !.result = g.result]
             /\ UNCHANGED <<sizes, history>>
        ELSE /\ Len(history) < MaxHistory
             /\ \E fs \in PickleSetFaults :
                  \E s \in {set_size_result(g.ss, u, v, fs)} :
                     /\ sizes' = s.ss.sizes
                     /\ history' = s.ss.history
                     /\ db' = s.ss.db
                     /\ last' = [NoCall EXCEPT
                            !.op = "pickle", !.user = u, !.size = v,
                            !.outcome = Shown(send_message(Interaction,
                                    IF s.outcome = "raised" THEN "sorry" ELSE "ok")),
                            !.result = IF s.outcome = "raised" THEN None ELSE v,
                            !.landed = Landed(sizes, history, s.ss.sizes,
                                              s.ss.history, u, v)]

\* the faults looked at in the calls the pickleboard and picklegraph commands
\* make: none; a conflict and then none; a conflict at every attempt; an
\* error at the first
CommandLoopFaults ==
    {f \in LoopFaults :
        /\ f.rb = "none"
        /\ \/ \A n \in 1..max_retries : f.kind[n] = "none"
           \/ ConflictThenNormal(f)
           \/ \A n \in 1..max_retries : f.kind[n] = "conflict"
           \/ f.kind[1] = "error" /\ \A n \in 2..max_retries : f.kind[n] = "none"}

\* Pickle.pickleboard up to the message it sends: defer, get_leaderboard,
\* then the followup with the board (or with "No pickle sizes recorded
\* yet!"); any exception is answered with response.send_message of the
\* apology.  The view the board carries is the subject of SpecView.
pickleboard_reply ==
    \E f \in CommandLoopFaults :
      \E r \in {leaderboard_loop(Session(db, sizes, history), 0, f)} :
        \E q \in OrderBySizeDesc(r.ss.wsizes) :
          LET i1 == defer(Interaction)
              leaderboard == IF r.outcome = "ok" THEN fetchall(r.ss, q) ELSE <<>>
              i2 == IF r.outcome # "ok" THEN send_message(i1, "sorry")
                    ELSE IF leaderboard = <<>> THEN followup_send(i1, "empty")
                    ELSE followup_send(i1, "ok")
          IN  /\ db' = r.ss.db
              /\ last' = [NoCall EXCEPT
                     !.op = "pickleboard", !.outcome = Shown(i2),
                     !.deferred = i1.responded]
              /\ UNCHANGED <<sizes, history>>

\* Pickle.picklegraph for target u: get_history; without history the "No
\* pickle history found" message; else PickleGraphs.create_history_graph
\* (drawn: whether it returns) and the message with the graph; any exception
\* is answered with response.send_message of the apology.
picklegraph(u) ==
    \E f \in CommandLoopFaults, drawn \in BOOLEAN :
      \E r \in {history_loop(Session(db, sizes, history), 0, f)} :
        LET rows == IF r.outcome = "ok"
                    THEN fetchall(r.ss, HistoryOf(r.ss.whistory, u)) ELSE <<>>
            i1 == IF r.outcome # "ok" THEN send_message(Interaction, "sorry")
                  ELSE IF rows = <<>> THEN send_message(Interaction, "empty")
                  ELSE IF ~drawn THEN send_message(Interaction, "sorry")
                  ELSE send_message(Interaction, "ok")
        IN  /\ db' = r.ss.db
            /\ last' = [NoCall EXCEPT
                   !.op = "picklegraph", !.user = u, !.outcome = Shown(i1)]
            /\ UNCHANGED <<sizes, history>>

\* the faults of reset_pickles: the statement that raises (0: none; 1: the
\* TRUNCATE; 2: the commit)
ResetFaults == [at : 0..2, kind : {"error"}]

\* Pickle.reset_pickles: execute("TRUNCATE TABLE pickle_sizes,
\* pickle_history", commit=True), then the message that all sizes have been
\* reset; any exception is answered with the apology
reset_pickles ==
    \E f \in ResetFaults :
      \E r \in {Run(Session(db, sizes, history), <<StTruncateBoth, StCommit>>,
                    f.at, f.kind)} :
        /\ sizes' = r.ss.sizes
        /\ history' = r.ss.history
        /\ db' = r.ss.db
        /\ last' = [NoCall EXCEPT
               !.op = "reset_pickles",
               !.outcome = Shown(send_message(Interaction,
                               IF r.raised # "none" THEN "sorry" ELSE "ok")),
               !.landed = IF r.ss.history # history THEN "history"
                          ELSE IF r.ss.sizes # sizes THEN "sizes"
                          ELSE "neither"]

---------------------------------------------------------------------------
(* PickleBoardView: the pure parts                                         *)

Max(a, b) == IF a >= b THEN a ELSE b
Min(a, b) == IF a <= b THEN a ELSE b

\* a Python slice bound: negative counts from the end, then clamped to [0, len]
SliceBound(i, len) ==
    IF i < 0 THEN Max(i + len, 0) ELSE Min(i, len)

\* entries[a:b]
PySlice(s, a, b) ==
    LET lo == SliceBound(a, Len(s))
        hi == SliceBound(b, Len(s))
    IN  IF lo >= hi THEN <<>> ELSE SubSeq(s, lo + 1, hi)

\* (a variant that rounds down)
TotalPagesFloor(entries) == Len(entries) \div entries_per_page

\* (len(entries) + entries_per_page - 1) // entries_per_page
total_pages(entries) == (Len(entries) + entries_per_page - 1) \div entries_per_page

\* (a variant that takes the global entries whatever the scope)
CurrentEntriesGlobalOnly(g, ge, se) == ge

\* entries = self.global_entries if self.is_global else self.server_entries
CurrentEntries(g, ge, se) == IF g THEN ge ELSE se

\* (a variant that puts each entry in front of those before it)
RECURSIVE EntriesOfReversed(_, _)
EntriesOfReversed(data, known) ==
    IF data = <<>> THEN <<>>
    ELSE IF Head(data).user_id \in known
    THEN EntriesOfReversed(Tail(data), known)
            \o <<[name |-> Head(data).user_id, size |-> Head(data).current_size]>>
    ELSE EntriesOfReversed(Tail(data), known)

\* the entries of data whose user is in known, in the order of data, each as
\* {'name', 'size'}; the name of user u is written u
RECURSIVE EntriesOf(_, _)
EntriesOf(data, known) ==
    IF data = <<>> THEN <<>>
    ELSE IF Head(data).user_id \in known
    THEN <<[name |-> Head(data).user_id, size |-> Head(data).current_size]>>
            \o EntriesOf(Tail(data), known)
    ELSE EntriesOf(Tail(data), known)

\* PickleBoardView.get_current_page_content
get_current_page_content(g, p, ge, se) ==
    LET entries == CurrentEntries(g, ge, se)
        start_idx == p * entries_per_page
        current_entries == PySlice(entries, start_idx, start_idx + entries_per_page)
    IN  IF entries = <<>>
        THEN [text |-> "No pickle sizes recorded yet!", lines |-> <<>>, footer |-> <<>>]
        ELSE IF current_entries = <<>>
        THEN [text |-> "No entries on this page.", lines |-> <<>>, footer |-> <<>>]
        ELSE [text |-> "entries",
              lines |-> [i \in 1..Len(current_entries) |->
                            [rank |-> start_idx + i,
                             name |-> current_entries[i].name,
                             size |-> current_entries[i].size]],
              footer |-> IF total_pages(entries) > 1
                         THEN <<p + 1, total_pages(entries)>> ELSE <<>>]

Loading == [text |-> "Loading global leaderboard...", lines |-> <<>>, footer |-> <<>>]

\* (a variant that enables the toggle along with the pagination buttons)
UpdateButtonsAndToggle(b, g, p, ge, se) ==
    [b EXCEPT !.prev_disabled = p <= 0,
              !.next_disabled = p >= total_pages(CurrentEntries(g, ge, se)) - 1,
              !.toggle_disabled = FALSE]

\* PickleBoardView.update_buttons
update_buttons(b, g, p, ge, se) ==
    [b EXCEPT !.prev_disabled = p <= 0,
              !.next_disabled = p >= total_pages(CurrentEntries(g, ge, se)) - 1]

\* an edit of the message: the embed and the view as they are at the call;
\* view: the message carries the view's controls
Edit(title, description, b) ==
    [title |-> title, description |-> description, view |-> TRUE,
     prev_disabled |-> b.prev_disabled, next_disabled |-> b.next_disabled,
     toggle_label |-> b.toggle_label, toggle_disabled |-> b.toggle_disabled]

Title(g) == IF g THEN "Global" ELSE "Server"

\* PickleBoardView.update_leaderboard on a session with a snapshot: the page's
\* content, or the loading text while the global entries are empty; the
\* buttons updated; the message edited.  Gives the buttons and the message.
update_leaderboard(b, g, p, ge, se) ==
    LET description == IF g /\ ge = <<>> THEN Loading
                       ELSE get_current_page_content(g, p, ge, se)
        b2 == update_buttons(b, g, p, ge, se)
    IN  [buttons |-> b2, message |-> Edit(Title(g), description, b2)]

\* user_ids = [entry['user_id'] for entry in self.leaderboard_data]
RECURSIVE UserIds(_)
UserIds(data) ==
    IF data = <<>> THEN <<>> ELSE <<Head(data).user_id>> \o UserIds(Tail(data))

\* uncached_ids = [uid for uid in user_ids if uid not in self.user_cache]
RECURSIVE Uncached(_, _)
Uncached(ids, cache) ==
    IF ids = <<>> THEN <<>>
    ELSE IF Head(ids) \in cache THEN Uncached(Tail(ids), cache)
    ELSE <<Head(ids)>> \o Uncached(Tail(ids), cache)

---------------------------------------------------------------------------
(* PickleBoardView: the session                                            *)

Handlers == 1..MaxHandlers

Idle == [pc |-> "idle", press |-> "none", second |-> FALSE, late |-> FALSE, todo |-> <<>>]

\* callback h is a toggle pressed in the server view with no global entries
\* cached, and has not ended
LoadingToggle(h) ==
    handlers[h].pc # "idle" /\ handlers[h].press = "uncached"

\* resolutions in flight: tasks inside bulk_fetch_users
InFlight ==
    {h \in Handlers : handlers[h].pc = "fetching"}
        \cup (IF prefetch.pc = "fetching" THEN {0} ELSE {})

\* the snapshot get_leaderboard hands to the view: n rows, user i at rank i,
\* sizes non-increasing with ties
Snapshot(n) ==
    [i \in 1..n |-> [user_id |-> i, current_size |-> MAX_SIZE - (i \div 2)]]

\* Pickle.pickleboard from the snapshot on: the view is built, the server
\* entries prepared, the first message sent, the prefetch task created.
\* n rows in the snapshot; members, known: who is in the server, whom the
\* identity service answers for.
pickleboard(n, members, known) ==
    LET data == Snapshot(n)
        se == EntriesOf(data, members)
        b == update_buttons([prev_disabled |-> TRUE, next_disabled |-> TRUE,
                             toggle_label |-> "Show Global", toggle_disabled |-> FALSE],
                            FALSE, 0, <<>>, se)
    IN  /\ leaderboard_data = data
        /\ guild_members = members
        /\ resolvable = known
        /\ is_global = FALSE
        /\ page = 0
        /\ global_entries = <<>>
        /\ server_entries = se
        /\ user_cache = {}
        /\ buttons = b
        /\ message = Edit("Server", get_current_page_content(FALSE, 0, <<>>, se), b)
        /\ prefetch = [pc |-> "fetching", todo |-> Uncached(UserIds(data), {})]
        /\ handlers = [h \in Handlers |-> Idle]
        /\ resolved = FALSE
        /\ timed_out = FALSE
        /\ timeout_error = FALSE
        /\ returned = FALSE

\* PickleBoardView.prev_page
prev_page ==
    /\ ~timed_out
    /\ ~message.prev_disabled
    /\ page' = Max(0, page - 1)
    /\ \E r \in {update_leaderboard(buttons, is_global, page', global_entries,
                                    server_entries)} :
          buttons' = r.buttons /\ message' = r.message
    /\ UNCHANGED <<leaderboard_data, guild_members, resolvable, is_global,
                   global_entries, server_entries, user_cache, prefetch, handlers,
                   resolved>>

\* (a variant that moves on without looking at the number of pages)
NextPageNoClamp(p, entries) == p + 1

\* the page next_page moves to
NextPage(p, entries) == Min(p + 1, total_pages(entries) - 1)

\* PickleBoardView.next_page
next_page ==
    /\ ~timed_out
    /\ ~message.next_disabled
    /\ page' = NextPage(page, CurrentEntries(is_global, global_entries, server_entries))
    /\ \E r \in {update_leaderboard(buttons, is_global, page', global_entries,
                                    server_entries)} :
          buttons' = r.buttons /\ message' = r.message
    /\ UNCHANGED <<leaderboard_data, guild_members, resolvable, is_global,
                   global_entries, server_entries, user_cache, prefetch, handlers,
                   resolved>>

\* toggle_global, from the press to its first await (interaction.response.defer()).
\* press and second note what the session was like at the press: towards which
\* scope, with the global entries cached or not, and whether such a toggle
\* towards the global view, not cached, was already under way; late: a
\* resolution had run to its end.  A view that timed out takes no press.
toggle_press(h) ==
    /\ ~timed_out
    /\ ~message.toggle_disabled
    /\ handlers[h].pc = "idle"
    /\ \A k \in Handlers : k < h => handlers[k].pc # "idle"
    /\ handlers' = [handlers EXCEPT ![h] =
            [pc |-> "deferred",
             press |-> IF is_global THEN "to_server"
                       ELSE IF global_entries = <<>> THEN "uncached" ELSE "cached",
             second |-> \E k \in Handlers : LoadingToggle(k),
             late |-> resolved,
             todo |-> <<>>]]
    /\ UNCHANGED <<leaderboard_data, guild_members, resolvable, is_global, page,
                   global_entries, server_entries, user_cache, buttons, message,
                   prefetch, resolved>>

\* toggle_global after defer() returned: the page reset, then either the switch
\* to the server view, rendered, or the switch to the global view up to the
\* await of the edit that shows the loading text
toggle_resume(h) ==
    /\ handlers[h].pc = "deferred"
    /\ page' = 0
    /\ returned' = (returned \/ is_global)
    /\ IF is_global
       THEN /\ is_global' = FALSE
            /\ \E r \in {update_leaderboard(
                            [buttons EXCEPT !.toggle_label = "Show Global",
                                            !.toggle_disabled = FALSE],
                            FALSE, 0, global_entries, server_entries)} :
                  buttons' = r.buttons /\ message' = r.message
            /\ handlers' = [handlers EXCEPT ![h] = Idle]
       ELSE /\ is_global' = TRUE
            /\ buttons' = [buttons EXCEPT !.toggle_label = "Loading...",
                                          !.toggle_disabled = TRUE]
            /\ message' = Edit("Global", Loading, buttons')
            /\ handlers' = [handlers EXCEPT ![h].pc = "placeholder"]
    /\ UNCHANGED <<leaderboard_data, guild_members, resolvable, global_entries,
                   server_entries, user_cache, prefetch, resolved>>

\* the end of the global branch of toggle_global: the button re-enabled and
\* relabelled, update_leaderboard
ToggleEnd(h, ge) ==
    /\ \E r \in {update_leaderboard(
                    [buttons EXCEPT !.toggle_label = "Show Server",
                                    !.toggle_disabled = FALSE],
                    is_global, page, ge, server_entries)} :
          buttons' = r.buttons /\ message' = r.message
    /\ handlers' = [handlers EXCEPT ![h] = Idle]

\* toggle_global after the loading text was sent: with global entries at hand
\* it ends; without, prepare_global_leaderboard runs up to the await of the
\* first fetch_user (or to its end when every id is cached)
toggle_load(h) ==
    /\ handlers[h].pc = "placeholder"
    /\ IF global_entries # <<>>
       THEN /\ ToggleEnd(h, global_entries)
            /\ UNCHANGED <<global_entries, resolved>>
       ELSE LET todo == Uncached(UserIds(leaderboard_data), user_cache)
            IN  IF todo = <<>>
                THEN /\ global_entries' = EntriesOf(leaderboard_data, user_cache)
                     /\ resolved' = TRUE
                     /\ ToggleEnd(h, global_entries')
                ELSE /\ handlers' = [handlers EXCEPT ![h].pc = "fetching",
                                                     ![h].todo = todo]
                     /\ UNCHANGED <<global_entries, resolved, buttons, message>>
    /\ UNCHANGED <<leaderboard_data, guild_members, resolvable, is_global, page,
                   server_entries, user_cache, prefetch>>

\* chunk = uncached_ids[i:i + chunk_size]
Chunk(todo) == PySlice(todo, 0, chunk_size)
Rest(todo) == PySlice(todo, chunk_size, Len(todo))

\* (a variant in which the first failure ends the chunk)
FetchedUntilFailure(cache, chunk) ==
    cache \cup {chunk[i] : i \in {j \in DOMAIN chunk :
                                    \A m \in 1..j : chunk[m] \in resolvable}}

\* bulk_fetch_users over one chunk: every fetch_user that answers is cached,
\* every failure skipped.  The fetches of a chunk are taken as one step:
\* between them nothing but user_cache changes.
Fetched(cache, chunk) ==
    cache \cup {chunk[i] : i \in {j \in DOMAIN chunk : chunk[j] \in resolvable}}

\* a chunk of the toggle's prepare_global_leaderboard returns; after the last
\* one the global entries are built from the users found, the buttons
\* updated, and toggle_global goes on to its end
toggle_fetch(h) ==
    /\ handlers[h].pc = "fetching"
    /\ user_cache' = Fetched(user_cache, Chunk(handlers[h].todo))
    /\ IF Rest(handlers[h].todo) # <<>>
       THEN /\ handlers' = [handlers EXCEPT ![h].todo = Rest(@)]
            /\ UNCHANGED <<global_entries, resolved, buttons, message>>
       ELSE /\ global_entries' = EntriesOf(leaderboard_data, user_cache')
            /\ resolved' = TRUE
            /\ ToggleEnd(h, global_entries')
    /\ UNCHANGED <<leaderboard_data, guild_members, resolvable, is_global, page,
                   server_entries, prefetch>>

\* PickleBoardView.on_timeout, with the view's timeout that calls it: the
\* view stops taking presses and the message is edited to carry no view; an
\* edit that fails (edited: whether it goes through) leaves the message as it
\* is and its exception ends on_timeout.  Callbacks and the prefetch task
\* that are under way go on.
on_timeout ==
    /\ ~timed_out
    /\ timed_out' = TRUE
    /\ \E edited \in BOOLEAN :
          /\ message' = IF edited THEN [message EXCEPT !.view = FALSE] ELSE message
          /\ timeout_error' = ~edited
    /\ UNCHANGED <<leaderboard_data, guild_members, resolvable, is_global, page,
                   global_entries, server_entries, user_cache, buttons, prefetch,
                   handlers, resolved, returned>>

\* a chunk of the prefetch task returns; after the last one the global
\* entries are built and the buttons updated (nothing is sent)
prefetch_fetch ==
    /\ prefetch.pc = "fetching"
    /\ user_cache' = Fetched(user_cache, Chunk(prefetch.todo))
    /\ IF Rest(prefetch.todo) # <<>>
       THEN /\ prefetch' = [prefetch EXCEPT !.todo = Rest(@)]
            /\ UNCHANGED <<global_entries, resolved, buttons>>
       ELSE /\ prefetch' = [pc |-> "done", todo |-> <<>>]
            /\ global_entries' = EntriesOf(leaderboard_data, user_cache')
            /\ resolved' = TRUE
            /\ buttons' = update_buttons(buttons, is_global, page, global_entries',
                                         server_entries)
    /\ UNCHANGED <<leaderboard_data, guild_members, resolvable, is_global, page,
                   server_entries, message, handlers>>

---------------------------------------------------------------------------
(* Several sessions: one PickleBoardView object per pickleboard request     *)

SessionIds == {1, 2}

\* no view object built yet
NoSession ==
    [open |-> FALSE, leaderboard_data |-> <<>>, guild_members |-> {},
     is_global |-> FALSE, page |-> 0, global_entries |-> <<>>,
     server_entries |-> <<>>, user_cache |-> {}, prefetched |-> FALSE]

NoSessions == [s \in SessionIds |-> NoSession]

\* (a variant that keeps the attributes on the class, shared by every view
\* object built so far)
SetClassAttributes(vs, s, v) ==
    [t \in DOMAIN vs |-> IF t = s \/ vs[t].open THEN v ELSE vs[t]]

\* self.<attribute> = ...: the attributes of view object s become v, those of
\* every other object stay
SetAttributes(vs, s, v) == [vs EXCEPT ![s] = v]

\* PickleBoardView.__init__; prefetched: the task pickleboard creates for
\* prepare_global_leaderboard has run
PickleBoardView(leaderboard, members) ==
    [open |-> TRUE, leaderboard_data |-> leaderboard, guild_members |-> members,
     is_global |-> FALSE, page |-> 0, global_entries |-> <<>>,
     server_entries |-> <<>>, user_cache |-> {}, prefetched |-> FALSE]

\* PickleBoardView.prepare_server_leaderboard
prepare_server_leaderboard(v) ==
    [v EXCEPT !.server_entries = EntriesOf(v.leaderboard_data, v.guild_members)]

\* PickleBoardView.prepare_global_leaderboard run to its end (the snapshots of
\* these sessions fit in one chunk)
prepare_global_leaderboard(v) ==
    LET cache == Fetched(v.user_cache,
                         Chunk(Uncached(UserIds(v.leaderboard_data), v.user_cache)))
    IN  [v EXCEPT !.user_cache = cache,
                  !.global_entries = EntriesOf(v.leaderboard_data, cache)]

\* interaction.guild.members of request s: the first request comes from a
\* server with every user in it, the second from a server with user 1 only
GuildMembers(s) == IF s = 1 THEN Users ELSE {1}

\* Pickle.pickleboard as request s: defer, get_leaderboard, and with rows at
\* hand a view object of its own over the rows and the server's members, its
\* server entries prepared, sent with the followup
pickleboard_view(s) ==
    /\ ~views[s].open
    /\ \A t \in SessionIds : t < s => views[t].open
    /\ \E f \in CommandLoopFaults, members \in {GuildMembers(s)} :
        \E r \in {leaderboard_loop(Session(db, sizes, history), 0, f)} :
          \E q \in OrderBySizeDesc(r.ss.wsizes) :
            LET i1 == defer(Interaction)
                leaderboard == IF r.outcome = "ok" THEN fetchall(r.ss, q) ELSE <<>>
                i2 == IF r.outcome # "ok" THEN send_message(i1, "sorry")
                      ELSE IF leaderboard = <<>> THEN followup_send(i1, "empty")
                      ELSE followup_send(i1, "ok")
            IN  /\ db' = r.ss.db
                /\ last' = [NoCall EXCEPT
                       !.op = "pickleboard", !.outcome = Shown(i2),
                       !.deferred = i1.responded]
                /\ views' = IF Shown(i2) = "ok"
                            THEN SetAttributes(views, s,
                                   prepare_server_leaderboard(
                                       PickleBoardView(leaderboard, members)))
                            ELSE views
                /\ UNCHANGED <<sizes, history>>

\* the prefetch task of view s: prepare_global_leaderboard
prefetch_task(s) ==
    /\ views[s].open
    /\ ~views[s].prefetched
    /\ views' = SetAttributes(views, s,
                   [prepare_global_leaderboard(views[s]) EXCEPT !.prefetched = TRUE])

\* PickleBoardView.toggle_global of view s, from the press to its end
toggle_global(s) ==
    /\ views[s].open
    /\ LET v == [views[s] EXCEPT !.page = 0]
       IN  views' = SetAttributes(views, s,
              IF v.is_global
              THEN [v EXCEPT !.is_global = FALSE]
              ELSE IF v.global_entries = <<>>
              THEN prepare_global_leaderboard([v EXCEPT !.is_global = TRUE])
              ELSE [v EXCEPT !.is_global = TRUE])

---------------------------------------------------------------------------
(* The specifications                                                      *)

\* Pickle.__init__ builds PickleData, whose Database may have failed to connect
PickleData ==
    /\ sizes = [u \in Users |-> None]
    /\ history = <<>>
    /\ \E connected \in BOOLEAN : db = Database(connected)
    /\ last = NoCall

\* no view session: the store is looked at on its own
NoView ==
    /\ leaderboard_data = <<>>
    /\ guild_members = {}
    /\ resolvable = {}
    /\ is_global = FALSE
    /\ page = 0
    /\ global_entries = <<>>
    /\ server_entries = <<>>
    /\ user_cache = {}
    /\ buttons = [prev_disabled |-> TRUE, next_disabled |-> TRUE,
                  toggle_label |-> "Show Global", toggle_disabled |-> FALSE]
    /\ message = Edit("Server", Loading, buttons)
    /\ prefetch = [pc |-> "done", todo |-> <<>>]
    /\ handlers = [h \in Handlers |-> Idle]
    /\ resolved = FALSE
    /\ timed_out = FALSE
    /\ timeout_error = FALSE
    /\ returned = FALSE
    /\ views = NoSessions

SetSize ==
    /\ \E u \in Users, v \in SizeInputs : set_size(u, v)
    /\ UNCHANGED <<now, swept, viewVars>>
GetSize == (\E u \in Users : get_size(u)) /\ UNCHANGED <<now, swept, viewVars>>
GetLeaderboard == get_leaderboard /\ UNCHANGED <<now, swept, viewVars>>
GetHistory == (\E u \in Users : get_history(u)) /\ UNCHANGED <<now, swept, viewVars>>

NextStore ==
    \/ SetSize
    \/ GetSize
    \/ GetLeaderboard
    \/ GetHistory

\* a clock away from the reset hour; no sweep on record
NoSweep == now = [month |-> 1, day |-> 2, hour |-> 1] /\ swept = {}

InitStore == PickleData /\ NoSweep /\ NoView

SpecStore == InitStore /\ [][NextStore]_vars

\* the bot has started; no sweep on record
Started == now \in StartClocks /\ swept = {}

MonthlyReset == monthly_reset /\ UNCHANGED <<now, viewVars>>
Tick == tick /\ UNCHANGED <<sizes, history, db, last, swept, viewVars>>
PickleCommand ==
    /\ \E u \in Users, v \in randint(MIN_SIZE, MAX_SIZE + 1) : pickle(u, v)
    /\ UNCHANGED <<now, swept, viewVars>>

NextSweep ==
    \/ MonthlyReset
    \/ Tick
    \/ PickleCommand

InitSweep == PickleData /\ Started /\ NoView

SpecSweep == InitSweep /\ [][NextSweep]_vars

\* The commands of the cog and the hourly task, in the reset hour of a month
PickleboardCommand == pickleboard_reply /\ UNCHANGED <<now, swept, viewVars>>
PicklegraphCommand ==
    (\E u \in Users : picklegraph(u)) /\ UNCHANGED <<now, swept, viewVars>>
ResetPickles == reset_pickles /\ UNCHANGED <<now, swept, viewVars>>

NextCommands ==
    \/ PickleCommand
    \/ PickleboardCommand
    \/ PicklegraphCommand
    \/ ResetPickles
    \/ MonthlyReset

\* the first hour of a month; no sweep on record
ResetHour == now = [month |-> 1, day |-> 1, hour |-> 0] /\ swept = {}

InitCommands == PickleData /\ ResetHour /\ NoView

SpecCommands == InitCommands /\ [][NextCommands]_vars

\* the sessions looked at: snapshots of one row, of one full page and of
\* MaxEntries rows; as <<members of the server, users known to the identity
\* service>>: everyone and everyone, everyone and no one, no one and
\* everyone, everyone but the leader in both
SnapshotLengths == {1, entries_per_page, MaxEntries}
Populations(n) == {<<1..n, 1..n>>, <<1..n, {}>>, <<{}, 1..n>>, <<2..n, 2..n>>}

InitView ==
    /\ sizes = [u \in Users |-> None]
    /\ history = <<>>
    /\ db = Database(TRUE)
    /\ last = NoCall
    /\ NoSweep
    /\ views = NoSessions
    /\ \E n \in SnapshotLengths :
         \E pop \in Populations(n) : pickleboard(n, pop[1], pop[2])

PrevPage == prev_page /\ UNCHANGED <<storeVars, views, timed_out, timeout_error, returned>>
NextPagePress == next_page /\ UNCHANGED <<storeVars, views, timed_out, timeout_error, returned>>
TogglePress ==
    /\ \E h \in Handlers : toggle_press(h)
    /\ UNCHANGED <<storeVars, views, timed_out, timeout_error, returned>>
ToggleResume ==
    (\E h \in Handlers : toggle_resume(h)) /\ UNCHANGED <<storeVars, views, timed_out, timeout_error>>
ToggleLoad ==
    /\ \E h \in Handlers : toggle_load(h)
    /\ UNCHANGED <<storeVars, views, timed_out, timeout_error, returned>>
ToggleFetch ==
    /\ \E h \in Handlers : toggle_fetch(h)
    /\ UNCHANGED <<storeVars, views, timed_out, timeout_error, returned>>
PrefetchFetch == prefetch_fetch /\ UNCHANGED <<storeVars, views, timed_out, timeout_error, returned>>
Timeout == on_timeout /\ UNCHANGED <<storeVars, views>>

NextView ==
    \/ PrevPage
    \/ NextPagePress
    \/ TogglePress
    \/ ToggleResume
    \/ ToggleLoad
    \/ ToggleFetch
    \/ PrefetchFetch
    \/ Timeout

SpecView == InitView /\ [][NextView]_vars

\* Paging through the server view: sessions over snapshots of 1 to MaxRows
\* rows, with everyone or everyone but the leader in the server
InitPaging ==
    /\ sizes = [u \in Users |-> None]
    /\ history = <<>>
    /\ db = Database(TRUE)
    /\ last = NoCall
    /\ NoSweep
    /\ views = NoSessions
    /\ \E n \in 1..MaxRows :
         \E pop \in {<<1..n, 1..n>>, <<2..n, 2..n>>} : pickleboard(n, pop[1], pop[2])

NextPaging ==
    \/ PrevPage
    \/ NextPagePress
    \/ PrefetchFetch

SpecPaging == InitPaging /\ [][NextPaging]_vars

\* Resolution in more than one chunk: sessions over a snapshot of
\* MaxBatchRows rows in which the identity service fails for no one, for the
\* leader, for a user late in the first chunk, for the last user, or for the
\* leader and the last user
Failing ==
    {{}, {1}, {chunk_size - 1}, {MaxBatchRows}, {1, MaxBatchRows}}

InitBatches ==
    /\ sizes = [u \in Users |-> None]
    /\ history = <<>>
    /\ db = Database(TRUE)
    /\ last = NoCall
    /\ NoSweep
    /\ views = NoSessions
    /\ \E failing \in Failing :
         pickleboard(MaxBatchRows, 1..MaxBatchRows, (1..MaxBatchRows) \ failing)

NextBatches ==
    \/ PrefetchFetch
    \/ TogglePress
    \/ ToggleResume
    \/ ToggleLoad
    \/ ToggleFetch

SpecBatches == InitBatches /\ [][NextBatches]_vars

\* Several pickleboard requests, each with its view, next to the commands
\* that write the store and the monthly reset, these in the runs that report
\* "ok" (SpecCommands has them all); the identity service answers
\* for every user
boardVars ==
    <<leaderboard_data, guild_members, resolvable, is_global, page, global_entries,
      server_entries, user_cache, buttons, message, prefetch, handlers, resolved,
      timed_out, timeout_error, returned>>

InitSessions ==
    /\ sizes = [u \in Users |-> None]
    /\ history = <<>>
    /\ db = Database(TRUE)
    /\ last = NoCall
    /\ ResetHour
    /\ leaderboard_data = <<>>
    /\ guild_members = {}
    /\ resolvable = Users
    /\ is_global = FALSE
    /\ page = 0
    /\ global_entries = <<>>
    /\ server_entries = <<>>
    /\ user_cache = {}
    /\ buttons = [prev_disabled |-> TRUE, next_disabled |-> TRUE,
                  toggle_label |-> "Show Global", toggle_disabled |-> FALSE]
    /\ message = Edit("Server", Loading, buttons)
    /\ prefetch = [pc |-> "done", todo |-> <<>>]
    /\ handlers = [h \in Handlers |-> Idle]
    /\ resolved = FALSE
    /\ timed_out = FALSE
    /\ timeout_error = FALSE
    /\ returned = FALSE
    /\ views = NoSessions

PickleboardView ==
    (\E s \in SessionIds : pickleboard_view(s)) /\ UNCHANGED <<now, swept, boardVars>>
PrefetchTask ==
    (\E s \in SessionIds : prefetch_task(s)) /\ UNCHANGED <<storeVars, boardVars>>
ToggleGlobal ==
    (\E s \in SessionIds : toggle_global(s)) /\ UNCHANGED <<storeVars, boardVars>>

\* a command or a reset that reports "ok" and leaves the store connected
Faultless == last'.outcome = "ok" /\ db'.cursor

\* the pickle command where every draw is MAX_SIZE
PickleFaultless ==
    /\ \E u \in Users : pickle(u, MAX_SIZE)
    /\ UNCHANGED <<now, swept, viewVars>>
    /\ Faultless
ResetPicklesFaultless == ResetPickles /\ Faultless
MonthlyResetFaultless == MonthlyReset /\ Faultless

NextSessions ==
    \/ PickleFaultless
    \/ ResetPicklesFaultless
    \/ MonthlyResetFaultless
    \/ PickleboardView
    \/ PrefetchTask
    \/ ToggleGlobal

SpecSessions == InitSessions /\ [][NextSessions]_vars


---------------------------------------------------------------------------
(* Claims about the store                                                  *)

\* C1: write-then-read consistency.  A get_size(u) that returns right after
\* a set_size(u, v) that returned without raising returns v.
C1_WriteThenRead ==
    (last.op = "get_size" /\ last.outcome = "ok" /\ last.acked # None)
        => last.result = last.acked

\* C2: set_size is atomic.  Whatever statement of whichever attempt raised,
\* the call leaves both the upserted record (u, v) and exactly one new history
\* row (u, v), or leaves both tables as they were; a call that raises leaves
\* them as they were.
C2_SetSizeAtomic ==
    last.op = "set_size" =>
        /\ last.landed \in {"both", "neither"}
        /\ last.outcome = "raised" => last.landed = "neither"

\* a second attempt that lands both rows on top of an earlier write
C2_RetryLandsBoth ==
    /\ last.op = "set_size"
    /\ last.attempts = 2
    /\ last.outcome = "ok"
    /\ last.landed = "both"
    /\ Len(history) = 2

\* C3 as claimed: a set_size whose attempts failed with transient conflicts
\* only does not raise before it has made max_retries = 3 attempts.
C3_ThreeAttempts ==
    (last.op = "set_size" /\ last.outcome = "raised" /\ last.conflictsOnly)
        => last.attempts = max_retries

\* C3 as amended: set_size makes two attempts at most.  When the first raised
\* and every statement of the second was carried out, the call returns and
\* both rows are there, written once, by the second attempt as a whole; when
\* both raised, the call raises and the tables are as they were.
C3_TwoAttempts ==
    last.op = "set_size" =>
        /\ last.attempts \in {1, 2}
        /\ (last.attempts = 2 /\ last.outcome = "ok" /\ last.carried)
              => last.landed = "both"
        /\ last.outcome = "raised" => (last.attempts = 2 /\ last.landed = "neither")

\* a first attempt lost to a transient conflict, a second that succeeds
C3_ConflictThenSuccess ==
    /\ last.op = "set_size"
    /\ last.attempts = 2
    /\ last.conflictsOnly
    /\ last.outcome = "ok"
    /\ last.carried
    /\ sizes[last.user] = last.size

\* C4: a Store call returns normally only when its statements were carried
\* out against the store; otherwise it raises.
C4_FailurePropagates ==
    (last.op # "none" /\ last.outcome = "ok") => last.carried

---------------------------------------------------------------------------
(* Claims about the view session                                           *)

\* C5: in every state of a session the page index lies in
\* [0, max(0, ceil(n / 10) - 1)], n the number of entries of the selected scope.
C5_PageInRange ==
    /\ page >= 0
    /\ page <= Max(0, total_pages(CurrentEntries(is_global, global_entries,
                                                 server_entries)) - 1)

\* C6: at most one resolution of the global identities is in flight in a
\* session, the prefetch and the toggles' resolutions counted together.
C6_OneResolutionInFlight == Cardinality(InFlight) <= 1

\* the session shows the global leaderboard, ready
UnscopedReady ==
    /\ is_global
    /\ buttons.toggle_label = "Show Server"
    /\ message.title = "Global"
    /\ message.toggle_label = "Show Server"

\* C7: a toggle press that arrived while a toggle towards the global view
\* was under way, and is handled while that one is loading, changes neither
\* the scope, the page, the toggle's label nor the cached entries; and when
\* the loading toggle ends the session shows the global leaderboard.
C7_SecondToggleNoEffect ==
    [][\A h \in Handlers :
          /\ (/\ handlers[h].pc = "deferred"
              /\ handlers[h].second
              /\ \E k \in Handlers \ {h} :
                    LoadingToggle(k) /\ handlers[k].pc \in {"placeholder", "fetching"}
              /\ handlers'[h].pc # "deferred")
                => /\ is_global' = is_global
                   /\ page' = page
                   /\ buttons'.toggle_label = buttons.toggle_label
                   /\ global_entries' = global_entries
          /\ (/\ LoadingToggle(h)
              /\ handlers[h].pc \in {"placeholder", "fetching"}
              /\ handlers'[h].pc = "idle")
                => UnscopedReady']_vars

\* C8: a toggle pressed in the server view with no global entries cached has
\* the toggle disabled, in the view and on the message, whenever it is
\* suspended at an await, and the loading text is on the message at its first
\* await already.
C8_DisabledBeforeYield ==
    \A h \in Handlers :
        LoadingToggle(h) =>
            /\ buttons.toggle_disabled
            /\ message.toggle_disabled
            /\ handlers[h].pc = "deferred" => message.description = Loading

\* C9: when the resolution a toggle started ends, the page index is 0, the
\* toggle is enabled and the message shows page 0 of the global view.
C9_LoadEndsOnPageZero ==
    [][\A h \in Handlers :
          (handlers[h].pc = "fetching" /\ handlers'[h].pc = "idle")
            => /\ page' = 0
               /\ ~buttons'.toggle_disabled
               /\ message' = update_leaderboard(buttons', TRUE, 0, global_entries',
                                                server_entries).message]_vars

\* C10: once a resolution has run to its end and no toggle is under way, a
\* message in the global scope does not show the loading text, however many
\* identities were resolved.
C10_ReadyAfterLoad ==
    (/\ resolved
     /\ is_global
     /\ message.title = "Global"
     /\ \A h \in Handlers : handlers[h].pc = "idle")
        => message.description # Loading

\* C11: a toggle towards the global view pressed after a resolution has run to
\* its end sets the page to 0 when it is handled and starts no resolution.
C11_CachedToggle ==
    [][\A h \in Handlers :
          (handlers[h].late /\ handlers[h].press \in {"uncached", "cached"})
            => /\ (handlers[h].pc = "deferred" /\ handlers'[h].pc # "deferred")
                    => page' = 0
               /\ handlers'[h].pc = "fetching" => handlers[h].pc = "fetching"
      ]_vars

\* the message pickleboard sent when the session was built
ConstructionMessage ==
    LET se == EntriesOf(leaderboard_data, guild_members)
    IN  Edit("Server", get_current_page_content(FALSE, 0, <<>>, se),
             update_buttons([prev_disabled |-> TRUE, next_disabled |-> TRUE,
                             toggle_label |-> "Show Global", toggle_disabled |-> FALSE],
                            FALSE, 0, <<>>, se))

\* C12: a toggle handled in the global view puts the session in the server
\* scope on page 0, with the server entries and the message it had when it
\* was built, and starts no resolution.
C12_RoundTrip ==
    [][\A h \in Handlers :
          (handlers[h].pc = "deferred" /\ is_global /\ handlers'[h].pc # "deferred")
            => /\ ~is_global'
               /\ page' = 0
               /\ server_entries' = EntriesOf(leaderboard_data, guild_members)
               /\ message' = ConstructionMessage
               /\ InFlight' \subseteq InFlight
      ]_vars

\* a session back in the server view after the global entries were shown
C12_BackInServerView ==
    /\ returned
    /\ ~is_global
    /\ global_entries # <<>>
    /\ Len(server_entries) > entries_per_page
    /\ message = ConstructionMessage
    /\ \A h \in Handlers : handlers[h].pc = "idle"

\* C13: once the view has timed out and the message carries no controls, a
\* toggle that was loading and now ends leaves the message without controls
\* and the scope and the page as they are.
C13_TimedOutStays ==
    [][(/\ timed_out
        /\ ~message.view
        /\ \E h \in Handlers : /\ handlers[h].pc \in {"placeholder", "fetching"}
                               /\ handlers'[h].pc = "idle")
          => (~message'.view /\ is_global' = is_global /\ page' = page)]_vars

---------------------------------------------------------------------------
(* More claims about the store                                             *)

\* C19: the rows get_leaderboard returns are in non-increasing order of size:
\* no row comes before a row of a strictly larger size.
C19_LeaderboardSorted ==
    (last.op = "get_leaderboard" /\ last.outcome = "ok")
        => \A i, j \in DOMAIN last.rows :
              i < j => last.rows[i].current_size >= last.rows[j].current_size

\* a leaderboard of two rows of different sizes has been returned
C19_TwoRowsRanked ==
    /\ last.op = "get_leaderboard"
    /\ last.outcome = "ok"
    /\ Len(last.rows) = 2
    /\ last.rows[1].current_size > last.rows[2].current_size

\* C20: a get_leaderboard or get_history whose first attempt meets a transient
\* conflict, the store carrying out everything it is sent afterwards, returns
\* instead of raising.
C20_ConflictRetried ==
    (last.op \in {"get_leaderboard", "get_history"} /\ last.conflictThenNormal)
        => last.outcome = "ok"

---------------------------------------------------------------------------
(* Claims about the monthly reset                                          *)

\* C14: a reset that ran leaves the store either with every size lacking an
\* entry this month archived and all sizes cleared, or as it was; as it was
\* whenever a statement failed.
C14_SweepAtomic ==
    (last.op = "monthly_reset" /\ last.fired)
        => /\ last.landed # "partial"
           /\ last.outcome = "raised" => last.landed \in {"neither", "same"}
           /\ last.committed => last.landed \in {"both", "same"}

\* a reset failed with sizes in the store and left them there
C14_FailedSweepLeftStore ==
    /\ last.op = "monthly_reset"
    /\ last.fired
    /\ last.outcome = "raised"
    /\ last.landed = "neither"
    /\ \E u \in Users : sizes[u] # None

\* C15: a run of the reset task adds no history entry for a user who has one
\* dated in the current month, and at most one entry for any user.
C15_ArchiveOncePerMonth ==
    [][last'.op = "monthly_reset"
          => \A u \in Users :
                /\ (\E i \in DOMAIN history :
                        history[i].user_id = u /\ history[i].month = now.month)
                      => HistoryOf(history', u) = HistoryOf(history, u)
                /\ Len(HistoryOf(history', u)) <= Len(HistoryOf(history, u)) + 1
      ]_vars

\* a reset was committed that passed over a user with a size and an entry
\* dated this month
C15_SecondFiringSkips ==
    /\ last.op = "monthly_reset"
    /\ last.committed
    /\ last.skipped # {}

\* C16: a run of the reset in the hour in which a reset was already committed
\* changes neither the sizes nor the history.
C16_SecondFiringNoChange ==
    [][(last'.op = "monthly_reset" /\ now' = now /\ swept = {now})
          => (sizes' = sizes /\ history' = history)]_vars

\* C17: the notification goes out only when the reset took effect: the store
\* holds no size and the archive rows were added.
C17_NotifyAfterCommit ==
    (last.op = "monthly_reset" /\ last.notified # {})
        => last.landed \in {"both", "same"}

\* C18: a run of the task at any time but hour 0 of day 1 does no reset and
\* leaves the sizes and the history as they are.
C18_OnlyInResetHour ==
    [][(last'.op = "monthly_reset" /\ now' = now /\ ~(now.day = 1 /\ now.hour = 0))
          => (~last'.fired /\ sizes' = sizes /\ history' = history)]_vars

\* the task ran on day 1 after hour 0 with sizes in the store, and did no reset
C18_CheckAfterResetHour ==
    /\ last.op = "monthly_reset"
    /\ ~last.fired
    /\ now.day = 1
    /\ now.hour # 0
    /\ \E u \in Users : sizes[u] # None

---------------------------------------------------------------------------
(* Retries and the shared connection                                       *)

\* C21: every Store operation ends after at most max_retries (3) attempts,
\* and it ends with a result or with a raised exception: no retry loop is
\* left without a return or a raise
C21_RetriesBounded ==
    last.op \in {"set_size", "get_size", "get_leaderboard", "get_history"} =>
        /\ last.attempts \in 1..max_retries
        /\ last.outcome \in {"ok", "raised"}

\* a loop that met a transient conflict on each of its three attempts and raised
C21_GaveUpAfterThree ==
    /\ last.op \in {"get_leaderboard", "get_history"}
    /\ last.attempts = max_retries
    /\ last.outcome = "raised"

\* C22: between two Store operations the shared connection never holds
\* uncommitted statements, so the ROLLBACK a get_leaderboard or a sweep
\* starts with has nothing of another operation to discard
C22_NothingUncommittedBetweenOperations == ~db.dirty

\* the set_size of a pickle command wrote both rows and has returned, and the
\* connection is clean
C22_SetSizeLeftConnectionClean ==
    /\ last.op = "pickle"
    /\ last.landed = "both"
    /\ db.cursor
    /\ ~db.dirty

---------------------------------------------------------------------------
(* The commands                                                            *)

\* C28: a pickle, pickleboard or picklegraph command never leaves its user
\* without a response: when a failure reached the handler the user has the
\* apology, also when the interaction had been deferred before
C28_FailureAnsweredWithApology ==
    last.op \in {"pickle", "pickleboard", "picklegraph"} =>
        last.outcome \in {"ok", "empty", "sorry"}

\* a is a prefix of b
IsPrefix(a, b) == Len(a) <= Len(b) /\ \A i \in DOMAIN a : b[i] = a[i]

\* C29 (as stated): every step that is not a run of the scheduled
\* maintenance task keeps every existing history row
C29_OnlyMaintenanceRemovesHistory ==
    [][IsPrefix(history, history') \/ last'.op = "monthly_reset"]_vars

\* C29 (amended): every step that is not the administrator's reset command
\* keeps every existing history row; the scheduled maintenance task, set_size
\* and the pickle, pickleboard and picklegraph commands only add rows
C29_OnlyResetCommandRemovesHistory ==
    [][IsPrefix(history, history') \/ last'.op = "reset_pickles"]_vars

\* the reset command has emptied a history that held rows
C29_ResetCommandEmptiedHistory ==
    /\ last.op = "reset_pickles"
    /\ last.landed = "history"
    /\ history = <<>>

---------------------------------------------------------------------------
(* Navigation, paging and the entry lists                                  *)

\* a step of a prev_page or next_page callback: the steps of the view that
\* belong to no toggle, to no prefetch and to no timeout
NavStep ==
    /\ handlers' = handlers
    /\ prefetch' = prefetch
    /\ timed_out' = timed_out

\* the number of pages the selected scope has
Pages ==
    (Len(IF is_global THEN global_entries ELSE server_entries) + entries_per_page - 1)
        \div entries_per_page

C24_NavigationFrame ==
    [][NavStep =>
          /\ is_global' = is_global
          /\ global_entries' = global_entries
          /\ server_entries' = server_entries
          /\ user_cache' = user_cache
          /\ buttons'.toggle_disabled = buttons.toggle_disabled
          /\ message'.toggle_disabled = message.toggle_disabled]_vars

\* a next press has been handled in the global view with its entries loaded
C24_SecondGlobalPageShown ==
    /\ is_global
    /\ page = 1
    /\ global_entries # <<>>
    /\ user_cache # {}
    /\ message.title = "Global"
    /\ message.description.footer = <<2, 2>>

\* the rank of user u in the snapshot
RankOf(u) == CHOOSE i \in DOMAIN leaderboard_data : leaderboard_data[i].user_id = u

\* entries holds rows of the snapshot in the snapshot's order, each with the
\* snapshot's size, and only of users in allowed
RankedSubsequence(entries, allowed) ==
    /\ \A j \in DOMAIN entries :
          /\ entries[j].name \in allowed
          /\ \E i \in DOMAIN leaderboard_data :
                /\ leaderboard_data[i].user_id = entries[j].name
                /\ leaderboard_data[i].current_size = entries[j].size
    /\ \A j \in 1..(Len(entries) - 1) :
          RankOf(entries[j].name) < RankOf(entries[j + 1].name)

\* C26: the server entries and the global entries keep the rank order of the
\* snapshot: each is a subsequence of it, with its sizes, holding only
\* members of the server, respectively only users the identity service
\* answered for
C26_EntriesKeepRankOrder ==
    /\ RankedSubsequence(server_entries, guild_members)
    /\ RankedSubsequence(global_entries, resolvable)

\* both lists hold several rows and both left out the leader
C26_BothListsDroppedTheLeader ==
    /\ Len(server_entries) >= 2
    /\ Len(server_entries) < Len(leaderboard_data)
    /\ Len(global_entries) >= 2
    /\ Len(global_entries) < Len(leaderboard_data)

\* C30: a failure of the edit in on_timeout is swallowed: on_timeout never
\* ends with an exception
C30_TimeoutEditFailureSwallowed == timed_out => ~timeout_error

\* ceil(n / entries_per_page)
CeilPages(n) ==
    CHOOSE k \in 0..n : entries_per_page * (k - 1) < n /\ n <= entries_per_page * k

\* C25: with N > 0 entries there are ceil(N/10) pages; page p shows the
\* entries at positions 10p+1 .. min(10p+10, N), numbered by position; the
\* "Page X/Y" footer is there exactly when there is more than one page
C25_Paging ==
    LET N == Len(server_entries)
        first == entries_per_page * page + 1
        final == IF entries_per_page * page + entries_per_page < N
                 THEN entries_per_page * page + entries_per_page ELSE N
    IN  N > 0 =>
          /\ page \in 0..(CeilPages(N) - 1)
          /\ message.description.text = "entries"
          /\ message.description.lines =
                [i \in 1..(final - first + 1) |->
                    [rank |-> first + i - 1,
                     name |-> server_entries[first + i - 1].name,
                     size |-> server_entries[first + i - 1].size]]
          /\ message.description.footer =
                (IF CeilPages(N) > 1 THEN <<page + 1, CeilPages(N)>> ELSE <<>>)

\* the third and last page of 25 entries is shown: entries 21 to 25
C25_LastPageOfTwentyFive ==
    /\ Len(server_entries) = 25
    /\ page = 2
    /\ Len(message.description.lines) = 5
    /\ message.description.lines[1].rank = 21
    /\ message.description.footer = <<3, 3>>

\* C27: a lookup that fails does not end the resolution: once a resolution
\* has run to its end every user of the snapshot the identity service
\* answers for is in the global entries, those after the failure in its
\* chunk and those of later chunks alike
C27_FailureSkipsOneUserOnly ==
    resolved =>
        \A i \in DOMAIN leaderboard_data :
            leaderboard_data[i].user_id \in resolvable =>
                \E j \in DOMAIN global_entries :
                    global_entries[j].name = leaderboard_data[i].user_id

\* a lookup in the first chunk failed, and the last user of that chunk and
\* the user of the second chunk are in the global entries
C27_LaterUsersResolved ==
    /\ resolved
    /\ Len(leaderboard_data) > chunk_size
    /\ \E k \in 1..(chunk_size - 1) : k \notin resolvable
    /\ \E j \in DOMAIN global_entries : global_entries[j].name = chunk_size
    /\ \E j \in DOMAIN global_entries : global_entries[j].name = chunk_size + 1

---------------------------------------------------------------------------
(* The records of the store                                                *)

\* C31: the store holds at most one record per user (sizes has one value per
\* user), and after a set_size(u, v) that returned without raising, here the
\* one of a pickle command that drew v for u, the record of u holds v
C31_OneRecordWithTheValueSet ==
    (last.op = "pickle" /\ last.size # None /\ last.outcome = "ok")
        => sizes[last.user] = last.size

\* C32: a pickle command for a user who has a record shows the value of that
\* record and writes nothing: no upsert, no new history row
C32_FetchOrInitializeStable ==
    [][(/\ last'.op = "pickle"
        /\ last'.outcome = "ok"
        /\ sizes[last'.user] # None)
          => /\ last'.result = sizes[last'.user]
             /\ sizes' = sizes
             /\ history' = history]_vars

\* C35: every value in the store lies in [MIN_SIZE, MAX_SIZE]: each record
\* of pickle_sizes and each row of pickle_history
C35_ValuesInRange ==
    /\ \A u \in DOMAIN sizes : sizes[u] # None => sizes[u] \in MIN_SIZE..MAX_SIZE
    /\ \A i \in DOMAIN history : history[i].size \in MIN_SIZE..MAX_SIZE

\* the smallest and the largest value are on record, and the sweep has
\* archived a value
C35_BothEndsStored ==
    /\ \E i \in DOMAIN history : history[i].size = MIN_SIZE
    /\ \E i \in DOMAIN history : history[i].size = MAX_SIZE
    /\ last.op = "monthly_reset"
    /\ last.committed

---------------------------------------------------------------------------
(* The controls of the view                                                *)

\* no toggle is between its loading text and the end of its load
NoLoadInFlight ==
    \A h \in Handlers : handlers[h].pc \notin {"placeholder", "fetching"}

\* C33: whenever no load of the global view is in flight, the toggle's label
\* and the title on the message agree with the selected scope: "Show Global"
\* under "Server" in the server view, "Show Server" under "Global" in the
\* global view
C33_LabelAndTitleMatchScope ==
    NoLoadInFlight =>
        IF is_global
        THEN message.toggle_label = "Show Server" /\ message.title = "Global"
        ELSE message.toggle_label = "Show Global" /\ message.title = "Server"

\* C34: on every message that carries the controls, the loading text
\* included, prev is enabled only on a page after the first and next only
\* when the selected scope has a later page
C34_PaginationMatchesPosition ==
    message.view =>
        /\ ~message.prev_disabled => page > 0
        /\ ~message.next_disabled => page + 1 < Pages

\* C36: no user id that is in the identity cache is fetched again: the chunk
\* a resolution fetches holds no id already fetched with success
C36_NoRefetchOfCachedId ==
    [][/\ \A h \in Handlers :
            (handlers[h].pc = "fetching" /\ handlers'[h] # handlers[h])
                => \A i \in DOMAIN Chunk(handlers[h].todo) :
                       Chunk(handlers[h].todo)[i] \notin user_cache
       /\ (prefetch.pc = "fetching" /\ prefetch' # prefetch)
                => \A i \in DOMAIN Chunk(prefetch.todo) :
                       Chunk(prefetch.todo)[i] \notin user_cache]_vars

---------------------------------------------------------------------------
(* Several sessions                                                        *)

\* C37: the snapshot and the server entries of a view never change after the
\* view was built, and its global entries only become the entries of its own
\* snapshot; a step that writes the store changes no view, and a step that
\* builds or changes one view leaves every other view's scope, page and
\* entries as they were
C37_SessionsRenderOwnSnapshot ==
    [][\A s \in SessionIds :
          views[s].open =>
            /\ views'[s].open
            /\ views'[s].leaderboard_data = views[s].leaderboard_data
            /\ views'[s].server_entries = views[s].server_entries
            /\ views'[s].global_entries
                  \in {views[s].global_entries,
                       EntriesOf(views[s].leaderboard_data, views'[s].user_cache)}
            /\ (sizes' # sizes \/ history' # history) => views'[s] = views[s]
            /\ \A t \in SessionIds \ {s} :
                  views'[t] # views[t] => views'[s] = views[s]]_vars

\* two views over different snapshots, in different scopes, the first with
\* its global entries built, after the reset command emptied the store
C37_TwoViewsOutliveTheStore ==
    /\ \A s \in SessionIds : views[s].open /\ views[s].server_entries # <<>>
    /\ views[1].leaderboard_data # views[2].leaderboard_data
    /\ views[1].is_global /\ ~views[2].is_global
    /\ views[1].global_entries # <<>>
    /\ \A u \in Users : sizes[u] = None
    /\ last.op = "reset_pickles"
====
